---- MODULE Spec2Model ----
(***************************************************************************)
(* A model of fake_bpy_module/analyzer.py: the override ("mod file") patch *)
(* engine of AnalyzerWithModFile, the parameter tokenizer of               *)
(* FunctionAnalyzer and the section walker of BaseAnalyzer.                *)
(***************************************************************************)
EXTENDS Integers, Sequences, FiniteSets, TLC

\* A key that a JSON object / an XML node does not carry ("k" not in item).
Absent == "<absent>"
\* Python's None (JSON null).
None == "<None>"

(***************************************************************************)
(* Bounds of the model.                                                    *)
(***************************************************************************)
\* Length of AnalyzerWithModFile._mod_files.
MaxDocs == 2
\* Length of each of the lists "remove", "new", "append", "update".
MaxItems == 2
\* Length of the text handed to _parse_parameter_body_text.
MaxLen == 4
\* Number of child nodes the document walk visits.
MaxNodes == 4
\* Depth of nested <section> nodes.
MaxDepth == 2
\* Number of child nodes of a <desc>.
MaxChildren == 3
\* Length of an attribute name.
MaxAttrLen == 3

(***************************************************************************)
(* Universes the inputs are drawn from.                                    *)
(***************************************************************************)
\* The entities of the aggregated model, in document order: the key
\* (function, a, m) and keys that differ from it in the module, in the name and
\* in the type.
Infos ==
    << [type |-> "function", name |-> "a", module |-> "m",  desc |-> "x"],
       [type |-> "function", name |-> "a", module |-> None, desc |-> "x"],
       [type |-> "function", name |-> "a", module |-> "n",  desc |-> "x"],
       [type |-> "function", name |-> "b", module |-> "m",  desc |-> "x"],
       [type |-> "class",    name |-> "a", module |-> "m",  desc |-> "x"] >>

\* A patch item (a JSON object of an override document) of the key
\* (function, a, m), of the key (function, a, None), and items that lack the
\* module, the name or the type.
Items ==
    { [type |-> "function", name |-> "a",    module |-> "m",    desc |-> "y"],
      [type |-> "function", name |-> "a",    module |-> None,   desc |-> "y"],
      [type |-> "function", name |-> "a",    module |-> Absent, desc |-> "y"],
      [type |-> "function", name |-> Absent, module |-> "m",    desc |-> "y"],
      [type |-> Absent,     name |-> "a",    module |-> "m",    desc |-> "y"] }
\* The items of a "remove" list.
RemoveItems == Items
\* The items of a "new" list carry name and module (the override document format);
\* "method" is a type that "new" does not support.
NewItems ==
    {it \in Items : it.name # Absent /\ it.module # Absent}
    \cup {[type |-> "method", name |-> "a", module |-> "m", desc |-> "y"]}

NoItem == [type |-> Absent, name |-> Absent, module |-> Absent, desc |-> Absent]

VARIABLES
    section_info,   \* AnalysisResult.section_info: a list of info_list
    new_section,    \* the SectionInfo built by the "new" step
    in_data,        \* whether the key the engine stands at is in data.keys()
    mod_idx,        \* number of override documents loaded so far
    pc,             \* where _modify_with_mod_files stands
    idx,            \* number of items of the current list iterated so far
    item,           \* the loop variable item
    op,             \* the patch operation the latest step performed on item
    trace,          \* the output_log messages and from_dict calls of the latest step
    probe,          \* history: the key (type, name, module) that is watched
    mon,            \* history: what happened to the watched key
    text,           \* the argument of _parse_parameter_body_text
    parsed,         \* its outcome: not called yet, a raise, or the returned list
    walk_pc,        \* where _analyze_by_file stands
    frames,         \* the running _analyze_section calls, innermost last
    result_info_list,      \* r.result_info_list of the top-level section being walked
    result_section_info, \* result.section_info of _analyze_by_file
    nodes,          \* number of child nodes visited so far
    walk_op,        \* the kind of the child node the latest step visited
    error,          \* the exception that ended the walk
    elm,            \* the <desc> node handed to an analyzer's analyze
    role,           \* the type_ the analyzer is constructed with
    analyzed        \* its outcome: not called yet, a raise, or the returned entity

patch_vars == <<section_info, new_section, in_data, mod_idx, pc, idx, item, op, trace>>
hist_vars == <<probe, mon>>
param_vars == <<text, parsed>>
walk_vars == <<walk_pc, frames, result_info_list, result_section_info, nodes, walk_op, error>>

desc_vars == <<elm, role, analyzed>>

vars == <<patch_vars, hist_vars, param_vars, walk_vars, desc_vars>>

(***************************************************************************)
(* Strings are sequences of characters.                                    *)
(***************************************************************************)
RECURSIVE SeqsUpTo(_, _)
SeqsUpTo(S, n) ==
    IF n = 0 THEN {<<>>}
    ELSE LET shorter == SeqsUpTo(S, n - 1)
         IN  shorter \cup {Append(s, x) : s \in {t \in shorter : Len(t) = n - 1}, x \in S}

\* str.count(c)
RECURSIVE Count(_, _)
Count(str, c) ==
    IF str = <<>> THEN 0
    ELSE (IF Head(str) = c THEN 1 ELSE 0) + Count(Tail(str), c)

\* Split that drops the empty pieces.
RECURSIVE SplitNonEmpty(_, _)
SplitNonEmpty(str, sep) ==
    IF str = <<>> THEN <<>>
    ELSE IF \A i \in 1..Len(str) : str[i] # sep THEN <<str>>
    ELSE LET k == CHOOSE i \in 1..Len(str) :
                    str[i] = sep /\ \A j \in 1..(i - 1) : str[j] # sep
         IN  (IF k = 1 THEN <<>> ELSE <<SubSeq(str, 1, k - 1)>>)
             \o SplitNonEmpty(SubSeq(str, k + 1, Len(str)), sep)

\* str.split(sep): the pieces between the separators, at least one piece.
RECURSIVE Split(_, _)
Split(str, sep) ==
    IF \A i \in 1..Len(str) : str[i] # sep THEN <<str>>
    ELSE LET k == CHOOSE i \in 1..Len(str) :
                    str[i] = sep /\ \A j \in 1..(i - 1) : str[j] # sep
         IN  <<SubSeq(str, 1, k - 1)>> \o Split(SubSeq(str, k + 1, Len(str)), sep)

\* sep.join(list)
RECURSIVE Join(_, _)
Join(list, sep) ==
    IF list = <<>> THEN <<>>
    ELSE IF Len(list) = 1 THEN list[1]
    ELSE list[1] \o <<sep>> \o Join(Tail(list), sep)

\* re.sub(" ", "", p)
RemoveSpaces(p) ==
    LET NotSpace(c) == c # " "
    IN  SelectSeq(p, NotSpace)

(***************************************************************************)
(* FunctionAnalyzer._parse_parameter_body_text                             *)
(***************************************************************************)
\* The outcomes of a call: a ValueError, or the returned list of tokens.
Raised == [state |-> "raised", params |-> <<>>]
Returned(params) == [state |-> "returned", params |-> params]
NotCalled == [state |-> "not called", params |-> <<>>]

\* The loop "for p in sp" from sp[i] on, and the check after it.
RECURSIVE ParameterLoop(_, _, _, _, _)
ParameterLoop(sp, i, parenthese_level, next_param, params) ==
    IF i > Len(sp)
    THEN IF parenthese_level # 0 THEN Raised ELSE Returned(params)
    ELSE LET level == parenthese_level + Count(sp[i], "(") - Count(sp[i], ")")
             next  == next_param \o sp[i] \o <<",">>
         IN  IF level < 0 THEN Raised
             ELSE IF level = 0
             THEN ParameterLoop(sp, i + 1, level, <<>>,
                                Append(params, SubSeq(next, 1, Len(next) - 1)))
             ELSE ParameterLoop(sp, i + 1, level, next, params)

parse_parameter_body_text(str) ==
    LET pieces == Split(str, ",")
        sp == [i \in 1..Len(pieces) |-> RemoveSpaces(pieces[i])]
    IN  ParameterLoop(sp, 1, 0, <<>>, <<>>)

\* The characters of a parameter text: a letter, the comma, the parentheses, the
\* space and a whitespace character that is not the space.
Chars == {"a", ",", "(", ")", " ", "\t"}
Texts == SeqsUpTo(Chars, MaxLen)

(***************************************************************************)
(* The nodes of a document (the XML that Sphinx writes).                   *)
(***************************************************************************)
\* A string that is None, and a string-valued attribute or child element that
\* the node does not carry.
NoneStr == <<None>>
AbsentStr == <<Absent>>
\* A <desc_signature> without a <desc_parameterlist> child.
AbsentList == <<AbsentStr>>

\* str.find(c): the index, from 0, of the first c, or -1.
Find(str, c) ==
    IF \A i \in 1..Len(str) : str[i] # c THEN -1
    ELSE (CHOOSE i \in 1..Len(str) :
                str[i] = c /\ \A j \in 1..(i - 1) : str[j] # c) - 1

\* str.rfind(sub): the index, from 0, of the last occurrence of sub, or -1.
Rfind(str, sub) ==
    LET found == {k \in 0..(Len(str) - Len(sub)) :
                        SubSeq(str, k + 1, k + Len(sub)) = sub}
    IN  IF found = {} THEN -1
        ELSE CHOOSE k \in found : \A j \in found : j <= k

\* VariableInfo(type_), FunctionInfo(type_), ClassInfo(): nothing is set yet.
BlankInfo(type_) ==
    [type |-> type_, name |-> NoneStr, module |-> None, class |-> NoneStr,
     parameters |-> <<>>, description |-> None, base_classes |-> <<>>,
     methods |-> <<>>, attributes |-> <<>>]

\* The result None of _analyze_desc.
NoInfo == BlankInfo(None)

\* The outcomes of an analyzer: the entity it returns, or the exception it raises.
Ok(info) == [error |-> "none", info |-> info]
Fail(exception) == [error |-> exception, info |-> NoInfo]
NotAnalyzed == [error |-> "not called", info |-> NoInfo]

\* <desc_signature fullname= module= class=> with its <desc_name> and
\* <desc_parameterlist> children.
Signature(fullname, module, class, desc_name, desc_parameterlist) ==
    [tag |-> "desc_signature", fullname |-> fullname, module |-> module,
     class |-> class, desc_name |-> desc_name,
     desc_parameterlist |-> desc_parameterlist]

\* <desc_content> with its <paragraph> and <desc> children.
Content(paragraph, descs) ==
    [tag |-> "desc_content", paragraph |-> paragraph, descs |-> descs]

\* <desc desctype=>
Desc(desctype, children) ==
    [tag |-> "desc", desctype |-> desctype, children |-> children]

\* <paragraph> with its text and the reftitle of each <reference> below it.
Paragraph(ptext, references) ==
    [tag |-> "paragraph", text |-> ptext, references |-> references]

(***************************************************************************)
(* VariableAnalyzer.analyze                                                *)
(***************************************************************************)
\* The branch of a <desc_signature> child: the name, class and module are set.
VariableSignature(child, info) ==
    IF child.fullname = AbsentStr /\ child.desc_name = AbsentStr
    THEN Fail("AttributeError")     \* child.find("desc_name") is None
    ELSE LET name == IF child.fullname # AbsentStr THEN child.fullname
                     ELSE child.desc_name
             class_ == IF child.class = AbsentStr THEN NoneStr ELSE child.class
         IN  IF class_ # NoneStr /\ class_ # <<>>
             THEN IF name = NoneStr
                  THEN Fail("AttributeError")     \* None.rfind
                  ELSE LET i == Rfind(name, class_)
                       IN  Ok([info EXCEPT
                                !.name = IF i # -1
                                         THEN SubSeq(name, i + Len(class_) + 2, Len(name))
                                         ELSE name,
                                !.class = class_,
                                !.module = IF child.module = Absent THEN None
                                           ELSE child.module])
             ELSE Ok([info EXCEPT
                        !.name = name,
                        !.class = class_,
                        !.module = IF child.module = Absent THEN None
                                   ELSE child.module])

\* The loop "for child in list(elm)" from children[i] on, and the check after it.
RECURSIVE VariableLoop(_, _, _, _)
VariableLoop(children, i, signature_analyzed, info) ==
    IF i > Len(children)
    THEN IF ~signature_analyzed THEN Fail("RuntimeError") ELSE Ok(info)
    ELSE IF children[i].tag = "desc_signature"
    THEN IF signature_analyzed THEN Fail("RuntimeError")
         ELSE LET Then(r) == IF r.error # "none" THEN r
                             ELSE VariableLoop(children, i + 1, TRUE, r.info)
              IN  Then(VariableSignature(children[i], info))
    ELSE IF children[i].tag = "desc_content"
    THEN IF ~signature_analyzed THEN Fail("RuntimeError")
         ELSE VariableLoop(children, i + 1, signature_analyzed,
                           [info EXCEPT !.description =
                                IF children[i].paragraph # Absent
                                THEN children[i].paragraph ELSE @])
    ELSE VariableLoop(children, i + 1, signature_analyzed, info)

\* The children from children[i] on without the signatures that follow the first
\* signature; seen: a signature is among the children before children[i].
RECURSIVE FirstSignatureOnly(_, _, _)
FirstSignatureOnly(children, i, seen) ==
    IF i > Len(children) THEN <<>>
    ELSE IF children[i].tag = "desc_signature"
    THEN (IF seen THEN <<>> ELSE <<children[i]>>)
         \o FirstSignatureOnly(children, i + 1, TRUE)
    ELSE <<children[i]>> \o FirstSignatureOnly(children, i + 1, seen)

\* VariableAnalyze that skips the signatures after the first.
VariableAnalyzeFirstSignature(desc, type_) ==
    VariableLoop(FirstSignatureOnly(desc.children, 1, FALSE), 1, FALSE, BlankInfo(type_))

VariableAnalyze(desc, type_) ==
    VariableLoop(desc.children, 1, FALSE, BlankInfo(type_))

(***************************************************************************)
(* FunctionAnalyzer.analyze                                                *)
(***************************************************************************)
\* _get_parameters: the texts of the <desc_parameter> children, joined by commas
\* and tokenized.
get_parameters(bodies) ==
    IF \E i \in 1..Len(bodies) : bodies[i] = NoneStr
    THEN [state |-> "TypeError", params |-> <<>>]     \* ",".join of a None
    ELSE parse_parameter_body_text(Join(bodies, ","))

\* The branch of a <desc_signature> child: the name, the parameters, the module
\* and the class are set.
FunctionSignature(child, info) ==
    IF child.desc_name = AbsentStr \/ child.desc_name = NoneStr
    THEN Fail("AttributeError")     \* find("desc_name") is None, or its text is
    ELSE LET Set(dtext, lp, rp) ==
                LET Then(name, params) ==
                        IF params.state = "raised" THEN Fail("ValueError")
                        ELSE IF params.state = "TypeError" THEN Fail("TypeError")
                        ELSE Ok([info EXCEPT
                                    !.name = name,
                                    !.parameters = @ \o params.params,
                                    !.module = IF child.module = Absent THEN None
                                               ELSE child.module,
                                    !.class = IF child.class = AbsentStr THEN NoneStr
                                              ELSE child.class])
                IN  IF lp = -1 \/ rp = -1
                    THEN Then(IF lp # -1 THEN SubSeq(dtext, 1, lp) ELSE dtext,
                              IF child.desc_parameterlist = AbsentList
                              THEN Returned(<<>>)
                              ELSE get_parameters(child.desc_parameterlist))
                    ELSE Then(SubSeq(dtext, 1, lp),
                              parse_parameter_body_text(SubSeq(dtext, lp + 2, rp)))
         IN  Set(child.desc_name, Find(child.desc_name, "("),
                 Rfind(child.desc_name, <<")">>))

\* The loop "for child in list(elm)" from children[i] on, and the check after it;
\* the loop ends at the first <desc_content>.
RECURSIVE FunctionLoop(_, _, _, _)
FunctionLoop(children, i, signature_analyzed, info) ==
    IF i > Len(children)
    THEN IF ~signature_analyzed THEN Fail("RuntimeError") ELSE Ok(info)
    ELSE IF children[i].tag = "desc_signature"
    THEN IF signature_analyzed
         THEN FunctionLoop(children, i + 1, signature_analyzed, info)
         ELSE LET Then(r) == IF r.error # "none" THEN r
                             ELSE FunctionLoop(children, i + 1, TRUE, r.info)
              IN  Then(FunctionSignature(children[i], info))
    ELSE IF children[i].tag = "desc_content"
    THEN IF ~signature_analyzed THEN Fail("RuntimeError")
         ELSE Ok([info EXCEPT !.description =
                        IF children[i].paragraph # Absent
                        THEN children[i].paragraph ELSE @])
    ELSE FunctionLoop(children, i + 1, signature_analyzed, info)

FunctionAnalyze(desc, type_) ==
    FunctionLoop(desc.children, 1, FALSE, BlankInfo(type_))

(***************************************************************************)
(* ClassAnalyzer.analyze                                                   *)
(***************************************************************************)
\* _parse_desc_content: the <desc> children of a <desc_content> from descs[i] on;
\* info collects result["method"] and result["attribute"].
RECURSIVE ParseDescs(_, _, _)
ParseDescs(descs, i, info) ==
    IF i > Len(descs) THEN Ok(info)
    ELSE IF descs[i].desctype \in {"function", "method"}
    THEN LET Then(m) == IF m.error # "none" THEN m
                        ELSE ParseDescs(descs, i + 1,
                                        [info EXCEPT !.methods = Append(@, m.info)])
         IN  Then(FunctionAnalyze(descs[i], "method"))
    ELSE IF descs[i].desctype \in {"attribute", "data"}
    THEN LET Then(a) == IF a.error # "none" THEN a
                        ELSE ParseDescs(descs, i + 1,
                                        [info EXCEPT !.attributes = Append(@, a.info)])
         IN  Then(VariableAnalyze(descs[i], "attribute"))
    ELSE ParseDescs(descs, i + 1, info)

\* The loop "for child in list(elm)" from children[i] on, and the check after it.
RECURSIVE ClassLoop(_, _, _, _)
ClassLoop(children, i, signature_analyzed, info) ==
    IF i > Len(children)
    THEN IF ~signature_analyzed THEN Fail("RuntimeError") ELSE Ok(info)
    ELSE IF children[i].tag = "desc_signature"
    THEN IF signature_analyzed
         THEN ClassLoop(children, i + 1, signature_analyzed, info)
         ELSE ClassLoop(children, i + 1, TRUE,
                        [info EXCEPT
                            !.name = IF children[i].fullname = AbsentStr
                                     THEN NoneStr ELSE children[i].fullname,
                            !.module = IF children[i].module = Absent THEN None
                                       ELSE children[i].module])
    ELSE IF children[i].tag = "desc_content"
    THEN IF ~signature_analyzed THEN Fail("RuntimeError")
         ELSE LET Then(r) == IF r.error # "none" THEN r
                             ELSE ClassLoop(children, i + 1, signature_analyzed, r.info)
              IN  Then(ParseDescs(children[i].descs, 1,
                                  [info EXCEPT !.description =
                                        IF children[i].paragraph # Absent
                                        THEN children[i].paragraph ELSE @]))
    ELSE ClassLoop(children, i + 1, signature_analyzed, info)

\* ClassAnalyze that starts as if a signature had been analyzed.
ClassAnalyzeSignatureAnalyzed(desc) ==
    ClassLoop(desc.children, 1, TRUE, BlankInfo("class"))

ClassAnalyze(desc) ==
    ClassLoop(desc.children, 1, FALSE, BlankInfo("class"))

(***************************************************************************)
(* BaseAnalyzer                                                            *)
(***************************************************************************)
analyze_desc(desc) ==
    IF desc.desctype \in {"function", "method"} THEN FunctionAnalyze(desc, "function")
    ELSE IF desc.desctype = "data" THEN VariableAnalyze(desc, "constant")
    ELSE IF desc.desctype = "class" THEN ClassAnalyze(desc)
    ELSE Ok(NoInfo)

analyze_desc_with_base_classes(desc, base_classes) ==
    IF desc.desctype = "class"
    THEN LET Then(r) == IF r.error # "none" THEN r
                        ELSE Ok([r.info EXCEPT !.base_classes = @ \o base_classes])
         IN  Then(ClassAnalyze(desc))
    ELSE Fail("ValueError: desctype must be 'class'")

\* The two texts a base-class paragraph starts with (the source writes the dash
\* as U+2014).
BaseClassesMarker == "base classes -- "
BaseClassMarker == "base class -- "

\* child.text and (child.text.startswith(...) or child.text.startswith(...));
\* a text is a sequence whose first element is the marker it starts with.
IsBaseClassParagraph(paragraph) ==
    /\ paragraph.text # NoneStr
    /\ paragraph.text # <<>>
    /\ paragraph.text[1] \in {BaseClassesMarker, BaseClassMarker}

\* _analyze_base_classes: the reftitle of each reference; a reference without
\* reftitle raises KeyError.
analyze_base_classes(paragraph) ==
    IF \E i \in 1..Len(paragraph.references) : paragraph.references[i] = Absent
    THEN [error |-> "KeyError", base_classes |-> <<>>]
    ELSE [error |-> "none", base_classes |-> paragraph.references]

\* One running call of _analyze_section: its local base_classes; marked is the
\* history of whether a base-class paragraph was visited in this section after
\* the latest <desc> of the section.
Frame(base_classes, marked) == [base_classes |-> base_classes, marked |-> marked]

Top(stack) == stack[Len(stack)]

SetTop(stack, frame) == [stack EXCEPT ![Len(stack)] = frame]

(***************************************************************************)
(* The nodes the walk meets.                                               *)
(***************************************************************************)
WalkSignatures ==
    {Signature(fullname, module, AbsentStr, desc_name, AbsentList) :
        fullname \in {AbsentStr, <<"f">>},
        module \in {Absent, "m"},
        desc_name \in {AbsentStr, NoneStr, <<"f", "(", ")">>}}

WalkContents == {Content("d", <<>>)}

\* A signature followed by a content, a signature alone, a content before the
\* signature, and no child at all.
WalkChildren ==
    {<<sig, content>> : sig \in WalkSignatures, content \in WalkContents}
    \cup {<<sig>> : sig \in WalkSignatures}
    \cup {<<content, sig>> : sig \in WalkSignatures, content \in WalkContents}
    \cup {<<>>}

\* "attribute" is a desctype that _analyze_desc does not analyze.
WalkDescTypes == {"class", "function", "data", "attribute"}

WalkDescs == {Desc(desctype, children) :
                desctype \in WalkDescTypes, children \in WalkChildren}

\* Paragraphs with and without text, that start with a marker or not, with no
\* reference, a reference, and a reference without reftitle.
WalkParagraphs ==
    {Paragraph(ptext, references) :
        ptext \in {NoneStr, <<BaseClassesMarker>>, <<BaseClassMarker, "x">>, <<"x">>},
        references \in {<<>>, <<"B">>, <<Absent>>}}

(***************************************************************************)
(* Matching of an entity against a patch item.                             *)
(***************************************************************************)
\* RemoveMatch with an item without module matching every module.
RemoveMatchAnyModule(info, it) ==
    /\ ~((it.type = Absent) \/ (info.type # it.type))
    /\ ~((it.name = Absent) \/ (info.name # it.name))
    /\ \/ (it.module # Absent) /\ (info.module # it.module)
       \/ (it.module = Absent)

\* "remove"
RemoveMatch(info, it) ==
    /\ ~((it.type = Absent) \/ (info.type # it.type))
    /\ ~((it.name = Absent) \/ (info.name # it.name))
    /\ \/ (it.module # Absent) /\ (info.module # it.module)
       \/ (it.module = Absent) /\ (info.module = None)

\* "new"
HasEntryMatch(info, it) ==
    /\ ~((it.type = Absent) \/ (info.type # it.type))
    /\ ~((it.name = Absent) \/ (info.name # it.name))
    /\ ~((it.module = Absent) \/ (info.module # it.module))

\* "append"
AppendMatch(info, it) ==
    /\ ~((it.type = Absent) \/ (info.type # it.type))
    /\ ~((it.name = Absent) \/ (info.name # it.name))
    /\ ~((it.module = Absent) \/ (info.module # it.module))

\* UpdateMatch with an item without module matching the entities without module,
\* as "remove" does.
UpdateMatchAbsentIsNone(info, it) ==
    /\ ~((it.type = Absent) \/ (info.type # it.type))
    /\ ~((it.name = Absent) \/ (info.name # it.name))
    /\ \/ (it.module # Absent) /\ (info.module = it.module)
       \/ (it.module = Absent) /\ (info.module = None)

\* "update"
UpdateMatch(info, it) ==
    /\ ~((it.type = Absent) \/ (info.type # it.type))
    /\ ~((it.name = Absent) \/ (info.name # it.name))
    /\ ~((it.module = Absent) \/ (info.module # it.module))

\* Info.from_dict(item, mode) on an existing entity: the item's fields are copied.
from_dict(info, it, mode) ==
    [info EXCEPT !.desc = it.desc]

\* VariableInfo("constant") / FunctionInfo("function") / ClassInfo() followed by
\* from_dict(item, 'NEW').
NewInfo(it) ==
    [type |-> it.type, name |-> it.name, module |-> it.module, desc |-> it.desc]

SupportedNewTypes == {"constant", "function", "class"}

\* section.info_list after the removals of one "remove" item.
RemoveFrom(info_list, it) ==
    LET Keep(info) == ~RemoveMatch(info, it)
    IN  SelectSeq(info_list, Keep)

\* The "... is removed" warnings of one "remove" item, section by section.
RECURSIVE RemovedLog(_, _, _)
RemovedLog(sections, it, s) ==
    IF s > Len(sections) THEN <<>>
    ELSE LET Gone(info) == RemoveMatch(info, it)
             gone == SelectSeq(sections[s], Gone)
         IN  [i \in 1..Len(gone) |-> <<"removed", gone[i].name, gone[i].type>>]
             \o RemovedLog(sections, it, s + 1)

\* has_entry looking at the first section only.
has_entry_first_section(sections, it) ==
    \E s \in 1..Len(sections) : \E i \in 1..Len(sections[s]) :
        s = 1 /\ HasEntryMatch(sections[s][i], it)

has_entry(sections, it) ==
    \E s \in 1..Len(sections) : \E i \in 1..Len(sections[s]) :
        HasEntryMatch(sections[s][i], it)

\* Whether "append" / "update" calls from_dict on an entity.
Selected(info, it, mode) ==
    \/ mode = "APPEND" /\ AppendMatch(info, it)
    \/ mode = "UPDATE" /\ UpdateMatch(info, it)

\* The model after one "append" / "update" item.
Patched(sections, it, mode) ==
    [s \in 1..Len(sections) |->
        [i \in 1..Len(sections[s]) |->
            IF Selected(sections[s][i], it, mode)
            THEN from_dict(sections[s][i], it, mode)
            ELSE sections[s][i]]]

\* The from_dict calls of one "append" / "update" item, in the order of the loops.
RECURSIVE Calls(_, _, _, _, _)
Calls(sections, it, mode, s, i) ==
    IF s > Len(sections) THEN <<>>
    ELSE IF i > Len(sections[s]) THEN Calls(sections, it, mode, s + 1, 1)
    ELSE (IF Selected(sections[s][i], it, mode)
          THEN <<<<"from_dict", mode, s, i>>>> ELSE <<>>)
         \o Calls(sections, it, mode, s, i + 1)

\* NextPhase with "append" before "new".
NextPhaseAppendFirst(p) ==
    CASE p = "remove" -> "append"
      [] p = "append" -> "new"
      [] p = "new"    -> "update"
      [] p = "update" -> "load"

\* The order in which _modify_with_mod_file looks the four keys up.
NextPhase(p) ==
    CASE p = "remove" -> "new"
      [] p = "new"    -> "append"
      [] p = "append" -> "update"
      [] p = "update" -> "load"

(***************************************************************************)
(* History of the watched key.                                             *)
(***************************************************************************)
NoProbe == NoItem
\* The keys that can be watched: type, name and module are all given.
ProbeKeys ==
    {it \in Items : it.type # Absent /\ it.name # Absent /\ it.module # Absent}

SameKey(a, b) ==
    a.type = b.type /\ a.name = b.name /\ a.module = b.module

\* Number of entities of the model whose (type, name, module) is that of k.
RECURSIVE CountIn(_, _)
CountIn(info_list, k) ==
    IF info_list = <<>> THEN 0
    ELSE (IF SameKey(Head(info_list), k) THEN 1 ELSE 0) + CountIn(Tail(info_list), k)

RECURSIVE CountKey(_, _)
CountKey(sections, k) ==
    IF sections = <<>> THEN 0
    ELSE CountIn(Head(sections), k) + CountKey(Tail(sections), k)

\* No key is watched.
MonNone == [kind |-> "none"]

\* Watches a "remove" followed by an "append" of the watched key within one
\* document. stage 1: the model held an entity of the key when the document was
\* loaded; 2: and its "remove" list held an item of the key; 3: and its "append"
\* list held one too.
MonRemoveAppend == [kind |-> "remove-append", stage |-> 0]

\* Watches the "new" lists. ok: the model _modify received held no entity of the
\* watched key and no "new" list so far held two items of it; prior: whether the
\* "new" list of an earlier document held an item of the key (1) or not (0);
\* cur: whether the "new" list of the current document held one.
MonNew(sections, k) ==
    [kind |-> "new", ok |-> CountKey(sections, k) = 0, prior |-> 0, cur |-> 0]

\* Watches the "new" list of each document. absent: the model held no entity of
\* the watched key when the document was loaded; cur: the number of items of the
\* key its "new" list held so far, counted up to 2.
MonNewTwice == [kind |-> "new-twice", absent |-> FALSE, cur |-> 0]

MonLoad(sections) ==
    CASE mon.kind = "none" -> mon
      [] mon.kind = "remove-append" ->
            [mon EXCEPT !.stage = IF CountKey(sections, probe) > 0 THEN 1 ELSE 0]
      [] mon.kind = "new" ->
            IF ~mon.ok THEN mon
            ELSE [mon EXCEPT !.prior = IF @ + mon.cur > 1 THEN 1 ELSE @ + mon.cur,
                             !.cur = 0]
      [] mon.kind = "new-twice" ->
            [mon EXCEPT !.absent = CountKey(sections, probe) = 0, !.cur = 0]

MonItem(list, it) ==
    IF mon.kind = "none" \/ ~SameKey(it, probe) THEN mon
    ELSE CASE mon.kind = "remove-append" ->
                IF list = "remove" /\ mon.stage = 1 THEN [mon EXCEPT !.stage = 2]
                ELSE IF list = "append" /\ mon.stage = 2 THEN [mon EXCEPT !.stage = 3]
                ELSE mon
           [] mon.kind = "new" ->
                IF list # "new" \/ ~mon.ok THEN mon
                ELSE IF mon.cur = 1 THEN [mon EXCEPT !.ok = FALSE, !.prior = 0, !.cur = 0]
                ELSE [mon EXCEPT !.cur = 1]
           [] mon.kind = "new-twice" ->
                IF list # "new" \/ mon.cur = 2 THEN mon
                ELSE [mon EXCEPT !.cur = @ + 1]

(***************************************************************************)
(* The aggregated model _modify receives.                                  *)
(***************************************************************************)
\* One section that holds any of the entities of Infos.
InitSections ==
    {<<LET In(info) == info \in present IN SelectSeq(Infos, In)>> :
        present \in SUBSET {Infos[i] : i \in 1..Len(Infos)}}

InitPatch ==
    /\ section_info \in InitSections
    /\ new_section = <<>>
    /\ in_data = FALSE
    /\ mod_idx = 0
    /\ pc = "load"
    /\ idx = 0
    /\ item = NoItem
    /\ op = "none"
    /\ trace = <<>>

\* The tokenizer is not running.
IdleParam ==
    /\ text = <<>>
    /\ parsed = NotCalled

\* No document is being walked.
IdleWalk ==
    /\ walk_pc = "idle"
    /\ frames = <<>>
    /\ result_info_list = <<>>
    /\ result_section_info = <<>>
    /\ nodes = 0
    /\ walk_op = "none"
    /\ error = "none"

\* No analyzer is running on its own.
IdleDesc ==
    /\ elm = Desc("none", <<>>)
    /\ role = "none"
    /\ analyzed = NotAnalyzed

\* The patch engine is not running.
IdlePatch ==
    /\ section_info = <<>>
    /\ new_section = <<>>
    /\ in_data = FALSE
    /\ mod_idx = 0
    /\ pc = "idle"
    /\ idx = 0
    /\ item = NoItem
    /\ op = "none"
    /\ trace = <<>>
    /\ probe = NoProbe
    /\ mon = MonNone

Init ==
    /\ InitPatch
    /\ probe = NoProbe
    /\ mon = MonNone
    /\ IdleParam
    /\ IdleWalk
    /\ IdleDesc

InitRemoveAppend ==
    /\ InitPatch
    /\ probe \in ProbeKeys
    /\ mon = MonRemoveAppend
    /\ IdleParam
    /\ IdleWalk
    /\ IdleDesc

InitNew ==
    /\ InitPatch
    /\ probe \in ProbeKeys
    /\ mon = MonNew(section_info, probe)
    /\ IdleParam
    /\ IdleWalk
    /\ IdleDesc

InitNewTwice ==
    /\ InitPatch
    /\ probe \in ProbeKeys
    /\ mon = MonNewTwice
    /\ IdleParam
    /\ IdleWalk
    /\ IdleDesc

\* _modify_with_mod_files, one iteration: json.load of the next mod file.
LoadDoc ==
    /\ pc = "load"
    /\ mod_idx < MaxDocs
    /\ in_data' \in BOOLEAN
    /\ mod_idx' = mod_idx + 1
    /\ pc' = "remove"
    /\ idx' = 0
    /\ item' = NoItem
    /\ op' = "none"
    /\ trace' = <<>>
    /\ mon' = MonLoad(section_info)
    /\ UNCHANGED <<section_info, new_section, probe>>
    /\ UNCHANGED <<param_vars, walk_vars, desc_vars>>

\* _mod_files is exhausted.
Finish ==
    /\ pc = "load"
    /\ pc' = "done"
    /\ item' = NoItem
    /\ op' = "none"
    /\ trace' = <<>>
    /\ UNCHANGED <<section_info, new_section, in_data, mod_idx, idx, hist_vars>>
    /\ UNCHANGED <<param_vars, walk_vars, desc_vars>>

\* One iteration of "for item in data['remove']".
RemoveItem ==
    /\ pc = "remove"
    /\ in_data
    /\ idx < MaxItems
    /\ \E it \in RemoveItems :
        /\ item' = it
        /\ section_info' = [s \in 1..Len(section_info) |-> RemoveFrom(section_info[s], it)]
        /\ trace' = RemovedLog(section_info, it, 1)
        /\ mon' = MonItem("remove", it)
    /\ op' = "remove"
    /\ idx' = idx + 1
    /\ UNCHANGED <<new_section, in_data, mod_idx, pc, probe>>
    /\ UNCHANGED <<param_vars, walk_vars, desc_vars>>

\* "remove" is not a key of the document, or its list is exhausted; the "new"
\* step starts with an empty SectionInfo.
RemoveDone ==
    /\ pc = "remove"
    /\ pc' = NextPhase("remove")
    /\ in_data' \in BOOLEAN
    /\ idx' = 0
    /\ item' = NoItem
    /\ op' = "none"
    /\ trace' = <<>>
    /\ new_section' = <<>>
    /\ UNCHANGED <<section_info, mod_idx, hist_vars>>
    /\ UNCHANGED <<param_vars, walk_vars, desc_vars>>

\* One iteration of "for item in data['new']".
NewItem ==
    /\ pc = "new"
    /\ in_data
    /\ idx < MaxItems
    /\ \E it \in NewItems :
        /\ item' = it
        /\ mon' = MonItem("new", it)
        /\ IF has_entry(section_info, it)
           THEN /\ trace' = <<<<"already registered", it.name>>>>
                /\ UNCHANGED <<new_section, pc>>
           ELSE IF it.type \in SupportedNewTypes
           THEN /\ new_section' = Append(new_section, NewInfo(it))
                /\ trace' = <<>>
                /\ UNCHANGED pc
           ELSE \* KeyError of item["type"], or RuntimeError("Unsupported Type")
                /\ pc' = "error"
                /\ trace' = <<>>
                /\ UNCHANGED new_section
    /\ op' = "new"
    /\ idx' = idx + 1
    /\ UNCHANGED <<section_info, in_data, mod_idx, probe>>
    /\ UNCHANGED <<param_vars, walk_vars, desc_vars>>

\* "new" is not a key of the document, or its list is exhausted and the new
\* section is appended to the result.
NewDone ==
    /\ pc = "new"
    /\ section_info' = IF in_data THEN Append(section_info, new_section)
                       ELSE section_info
    /\ pc' = NextPhase("new")
    /\ in_data' \in BOOLEAN
    /\ idx' = 0
    /\ item' = NoItem
    /\ op' = "none"
    /\ trace' = <<>>
    /\ new_section' = <<>>
    /\ UNCHANGED <<mod_idx, hist_vars>>
    /\ UNCHANGED <<param_vars, walk_vars, desc_vars>>

\* One iteration of "for item in data['append']".
AppendItem ==
    /\ pc = "append"
    /\ in_data
    /\ idx < MaxItems
    /\ \E it \in Items :
        /\ item' = it
        /\ section_info' = Patched(section_info, it, "APPEND")
        /\ trace' = Calls(section_info, it, "APPEND", 1, 1)
        /\ mon' = MonItem("append", it)
    /\ op' = "append"
    /\ idx' = idx + 1
    /\ UNCHANGED <<new_section, in_data, mod_idx, pc, probe>>
    /\ UNCHANGED <<param_vars, walk_vars, desc_vars>>

\* "append" is not a key of the document, or its list is exhausted.
AppendDone ==
    /\ pc = "append"
    /\ pc' = NextPhase("append")
    /\ in_data' \in BOOLEAN
    /\ idx' = 0
    /\ item' = NoItem
    /\ op' = "none"
    /\ trace' = <<>>
    /\ UNCHANGED <<section_info, new_section, mod_idx, hist_vars>>
    /\ UNCHANGED <<param_vars, walk_vars, desc_vars>>

\* One iteration of "for item in data['update']".
UpdateItem ==
    /\ pc = "update"
    /\ in_data
    /\ idx < MaxItems
    /\ \E it \in Items :
        /\ item' = it
        /\ section_info' = Patched(section_info, it, "UPDATE")
        /\ trace' = Calls(section_info, it, "UPDATE", 1, 1)
        /\ mon' = MonItem("update", it)
    /\ op' = "update"
    /\ idx' = idx + 1
    /\ UNCHANGED <<new_section, in_data, mod_idx, pc, probe>>
    /\ UNCHANGED <<param_vars, walk_vars, desc_vars>>

\* "update" is not a key of the document, or its list is exhausted:
\* _modify_with_mod_file returns.
UpdateDone ==
    /\ pc = "update"
    /\ pc' = NextPhase("update")
    /\ in_data' = FALSE
    /\ idx' = 0
    /\ item' = NoItem
    /\ op' = "none"
    /\ trace' = <<>>
    /\ UNCHANGED <<section_info, new_section, mod_idx, hist_vars>>
    /\ UNCHANGED <<param_vars, walk_vars, desc_vars>>

Next ==
    \/ LoadDoc
    \/ Finish
    \/ RemoveItem
    \/ RemoveDone
    \/ NewItem
    \/ NewDone
    \/ AppendItem
    \/ AppendDone
    \/ UpdateItem
    \/ UpdateDone

\* The patch engine on every aggregated model and every list of documents.
Spec == Init /\ [][Next]_vars

\* The same, watching a "remove" and an "append" of one key.
SpecRemoveAppend == InitRemoveAppend /\ [][Next]_vars

\* The same, watching the "new" items of one key.
SpecNew == InitNew /\ [][Next]_vars

\* The same, watching the items of one key within each "new" list.
SpecNewTwice == InitNewTwice /\ [][Next]_vars

(***************************************************************************)
(* The tokenizer on every text of the bound.                               *)
(***************************************************************************)
InitParam ==
    /\ IdlePatch
    /\ IdleWalk
    /\ IdleDesc
    /\ text \in Texts
    /\ parsed = NotCalled

\* One call of _parse_parameter_body_text(text).
ParseParameterBodyText ==
    /\ pc = "idle"
    /\ parsed = NotCalled
    /\ parsed' = parse_parameter_body_text(text)
    /\ UNCHANGED <<text, patch_vars, hist_vars, walk_vars, desc_vars>>

NextParam ==
    \/ ParseParameterBodyText

SpecParam == InitParam /\ [][NextParam]_vars

(***************************************************************************)
(* BaseAnalyzer._analyze_by_file: the walk over one document.              *)
(***************************************************************************)
InitWalk ==
    /\ IdlePatch
    /\ IdleParam
    /\ IdleDesc
    /\ walk_pc = "root"
    /\ frames = <<>>
    /\ result_info_list = <<>>
    /\ result_section_info = <<>>
    /\ nodes = 0
    /\ walk_op = "none"
    /\ error = "none"

\* A <section> child of the root: r = SectionInfo() and _analyze_section is called.
RootSection ==
    /\ walk_pc = "root"
    /\ nodes < MaxNodes
    /\ walk_pc' = "section"
    /\ frames' = <<Frame(<<>>, FALSE)>>
    /\ result_info_list' = <<>>
    /\ nodes' = nodes + 1
    /\ walk_op' = "section"
    /\ UNCHANGED <<result_section_info, error>>
    /\ UNCHANGED <<patch_vars, hist_vars, param_vars, desc_vars>>

\* A child of the root that is not a <section>.
RootOther ==
    /\ walk_pc = "root"
    /\ nodes < MaxNodes
    /\ nodes' = nodes + 1
    /\ walk_op' = "other"
    /\ UNCHANGED <<walk_pc, frames, result_info_list, result_section_info, error>>
    /\ UNCHANGED <<patch_vars, hist_vars, param_vars, desc_vars>>

\* The root has no further child: _analyze_by_file returns result.
RootDone ==
    /\ walk_pc = "root"
    /\ walk_pc' = "done"
    /\ walk_op' = "none"
    /\ UNCHANGED <<frames, result_info_list, result_section_info, nodes, error>>
    /\ UNCHANGED <<patch_vars, hist_vars, param_vars, desc_vars>>

\* _analyze_section, a <paragraph> child.
SectionParagraph ==
    /\ walk_pc = "section"
    /\ nodes < MaxNodes
    /\ \E paragraph \in WalkParagraphs :
        IF IsBaseClassParagraph(paragraph)
        THEN \E r \in {analyze_base_classes(paragraph)} :
                IF r.error # "none"
                THEN /\ walk_pc' = "raised"
                     /\ error' = r.error
                     /\ UNCHANGED frames
                ELSE /\ frames' = SetTop(frames, Frame(r.base_classes, TRUE))
                     /\ UNCHANGED <<walk_pc, error>>
        ELSE UNCHANGED <<walk_pc, frames, error>>
    /\ nodes' = nodes + 1
    /\ walk_op' = "paragraph"
    /\ UNCHANGED <<result_info_list, result_section_info>>
    /\ UNCHANGED <<patch_vars, hist_vars, param_vars, desc_vars>>

\* _analyze_section, a <desc> child.
SectionDesc ==
    /\ walk_pc = "section"
    /\ nodes < MaxNodes
    /\ \E desc \in WalkDescs :
        \E r \in {IF Top(frames).base_classes = <<>> THEN analyze_desc(desc)
                  ELSE analyze_desc_with_base_classes(desc, Top(frames).base_classes)} :
            IF r.error # "none"
            THEN /\ walk_pc' = "raised"
                 /\ error' = r.error
                 /\ UNCHANGED result_info_list
            ELSE /\ result_info_list' = IF r.info # NoInfo
                                        THEN Append(result_info_list, r.info)
                                        ELSE result_info_list
                 /\ UNCHANGED <<walk_pc, error>>
    /\ frames' = SetTop(frames, Frame(Top(frames).base_classes, FALSE))
    /\ nodes' = nodes + 1
    /\ walk_op' = "desc"
    /\ UNCHANGED result_section_info
    /\ UNCHANGED <<patch_vars, hist_vars, param_vars, desc_vars>>

\* _analyze_section, a <section> child: the recursive call.
SectionSection ==
    /\ walk_pc = "section"
    /\ nodes < MaxNodes
    /\ Len(frames) < MaxDepth
    /\ frames' = Append(frames, Frame(<<>>, FALSE))
    /\ nodes' = nodes + 1
    /\ walk_op' = "section"
    /\ UNCHANGED <<walk_pc, result_info_list, result_section_info, error>>
    /\ UNCHANGED <<patch_vars, hist_vars, param_vars, desc_vars>>

\* _analyze_section, a child of another tag.
SectionOther ==
    /\ walk_pc = "section"
    /\ nodes < MaxNodes
    /\ nodes' = nodes + 1
    /\ walk_op' = "other"
    /\ UNCHANGED <<walk_pc, frames, result_info_list, result_section_info, error>>
    /\ UNCHANGED <<patch_vars, hist_vars, param_vars, desc_vars>>

\* SectionReturn with the nested section ending in a SectionInfo of its own.
SectionReturnOwnSectionInfo ==
    /\ walk_pc = "section"
    /\ Len(frames) > 1
    /\ frames' = SubSeq(frames, 1, Len(frames) - 1)
    /\ result_section_info' = Append(result_section_info, result_info_list)
    /\ result_info_list' = <<>>
    /\ walk_op' = "return"
    /\ UNCHANGED <<walk_pc, nodes, error>>
    /\ UNCHANGED <<patch_vars, hist_vars, param_vars, desc_vars>>

\* The section has no further child: a nested _analyze_section returns to the
\* section around it.
SectionReturn ==
    /\ walk_pc = "section"
    /\ Len(frames) > 1
    /\ frames' = SubSeq(frames, 1, Len(frames) - 1)
    /\ walk_op' = "return"
    /\ UNCHANGED <<walk_pc, result_info_list, result_section_info, nodes, error>>
    /\ UNCHANGED <<patch_vars, hist_vars, param_vars, desc_vars>>

\* The top-level section has no further child: result.section_info.append(r).
SectionAppend ==
    /\ walk_pc = "section"
    /\ Len(frames) = 1
    /\ frames' = <<>>
    /\ result_section_info' = Append(result_section_info, result_info_list)
    /\ result_info_list' = <<>>
    /\ walk_pc' = "root"
    /\ walk_op' = "return"
    /\ UNCHANGED <<nodes, error>>
    /\ UNCHANGED <<patch_vars, hist_vars, param_vars, desc_vars>>

NextWalk ==
    \/ RootSection
    \/ RootOther
    \/ RootDone
    \/ SectionParagraph
    \/ SectionDesc
    \/ SectionSection
    \/ SectionOther
    \/ SectionReturn
    \/ SectionAppend

\* The walk over every document of the bound.
SpecWalk == InitWalk /\ [][NextWalk]_vars

(***************************************************************************)
(* One analyzer on one <desc> node.                                        *)
(***************************************************************************)
\* The type_ an analyzer is constructed with: by _analyze_desc ("function",
\* "constant", and ClassAnalyzer) and by ClassAnalyzer._parse_desc ("method",
\* "attribute").
Roles == {"constant", "attribute", "function", "method", "class"}

\* The desctype of the <desc> that is handed to the analyzer of a role.
DescTypeOf(r) == IF r = "constant" THEN "data" ELSE r

\* analyzer.analyze(desc) of the analyzer of role r.
analyze(desc, r) ==
    IF r \in {"constant", "attribute"} THEN VariableAnalyze(desc, r)
    ELSE IF r \in {"function", "method"} THEN FunctionAnalyze(desc, r)
    ELSE ClassAnalyze(desc)

\* Signatures with and without fullname, module and <desc_name>.
DescSignatures ==
    {Signature(fullname, module, AbsentStr, desc_name, AbsentList) :
        fullname \in {AbsentStr, <<"f">>},
        module \in {Absent, "m"},
        desc_name \in {AbsentStr, <<"g", "(", ")">>}}

\* A content with a description, and one with an attribute of the class.
DescContents ==
    {Content("d", <<>>),
     Content(Absent,
             <<Desc("attribute",
                    <<Signature(<<"a">>, Absent, AbsentStr, AbsentStr, AbsentList)>>)>>)}

\* The children of a <desc>: signatures, contents and nodes of another tag.
DescChildren == DescSignatures \cup DescContents \cup {[tag |-> "other"]}

InitDesc ==
    /\ IdlePatch
    /\ IdleParam
    /\ IdleWalk
    /\ role \in Roles
    /\ elm \in {Desc(DescTypeOf(role), children) :
                    children \in SeqsUpTo(DescChildren, MaxChildren)}
    /\ analyzed = NotAnalyzed

\* The characters of an attribute name: one of the class name and another one.
AttrChars == {"C", "x"}
AttrNames == SeqsUpTo(AttrChars, MaxAttrLen) \ {<<>>}
\* The class attribute of the signature of an attribute.
AttrClasses == {<<"C">>, <<"x", "C">>}
\* What precedes the class in the qualified name: nothing, or the module.
AttrPrefixes == {<<>>, <<"m", ".">>}

\* fullname = prefix class "." attr
QualifiedName(prefix, class, attr) == prefix \o class \o <<".">> \o attr

\* The <desc> of an attribute of a class: one signature with fullname 'C.attr'
\* and class C.
InitAttr ==
    /\ IdlePatch
    /\ IdleParam
    /\ IdleWalk
    /\ role = "attribute"
    /\ elm \in {Desc("attribute",
                     <<Signature(QualifiedName(prefix, class, attr), module, class,
                                 AbsentStr, AbsentList)>>) :
                    prefix \in AttrPrefixes, class \in AttrClasses,
                    attr \in AttrNames, module \in {Absent, "m"}}
    /\ analyzed = NotAnalyzed

\* One call of analyze(elm).
Analyze ==
    /\ role # "none"
    /\ analyzed = NotAnalyzed
    /\ analyzed' = analyze(elm, role)
    /\ UNCHANGED <<elm, role>>
    /\ UNCHANGED <<patch_vars, hist_vars, param_vars, walk_vars>>

NextDesc ==
    \/ Analyze

\* Every analyzer on every <desc> of the bound.
SpecDesc == InitDesc /\ [][NextDesc]_vars

\* VariableAnalyzer on the attributes of a class.
SpecAttr == InitAttr /\ [][NextDesc]_vars

(***************************************************************************)
(* The patch engine: claims.                                               *)
(***************************************************************************)
\* The item carries type, name and module.
FullKey(it) == it.type # Absent /\ it.name # Absent /\ it.module # Absent

\* The entity's (type, name, module) equals the item's.
KeyEq(info, it) ==
    FullKey(it) /\ info.type = it.type /\ info.name = it.name /\ info.module = it.module

\* The entity has the item's type and name, and no module.
NullModuleOf(info, it) ==
    /\ it.type # Absent /\ it.name # Absent
    /\ info.type = it.type /\ info.name = it.name /\ info.module = None

WithoutKey(info_list, it) ==
    LET Keep(info) == ~KeyEq(info, it)
    IN  SelectSeq(info_list, Keep)

WithoutNullModule(info_list, it) ==
    LET Keep(info) == ~NullModuleOf(info, it)
    IN  SelectSeq(info_list, Keep)

\* The (section, index) places of the model.
Positions(sections) ==
    UNION {{<<s, i>> : i \in 1..Len(sections[s])} : s \in 1..Len(sections)}

\* C1: a "remove" item that carries type, name and module deletes every entity
\* whose (type, name, module) equals the item's, and no other entity: every
\* section keeps, in order, the entities that differ in some component.
C1_RemoveDeletesTheKey ==
    [][(op' = "remove" /\ FullKey(item'))
        => section_info' = [s \in 1..Len(section_info) |->
                                WithoutKey(section_info[s], item')]]_vars

\* C2: when the model held an entity of a key as a document was loaded, and the
\* document's "remove" and "append" lists both held an item of that key, no
\* entity of the key is in the model once the document is applied.
C2_RemoveThenAppendLeavesAbsent ==
    (pc = "load" /\ mon.kind = "remove-append" /\ mon.stage = 3)
        => CountKey(section_info, probe) = 0

\* C3: starting from a model without an entity of a key, after the "new" step
\* of a document that is at least the second whose "new" list holds an item of
\* that key (no list holding two), the model holds exactly one entity of it.
C3_NewTwiceLeavesOne ==
    (pc = "append" /\ idx = 0 /\ mon.kind = "new" /\ mon.ok
        /\ mon.cur = 1 /\ mon.prior = 1)
        => CountKey(section_info, probe) = 1

C3_Witness ==
    /\ pc = "append" /\ idx = 0 /\ mon.kind = "new" /\ mon.ok
    /\ mon.cur = 1 /\ mon.prior = 1 /\ mod_idx = 2
    /\ CountKey(section_info, probe) = 1

PhaseRank(p) ==
    CASE p = "remove" -> 1
      [] p = "new"    -> 2
      [] p = "append" -> 3
      [] p = "update" -> 4
      [] p = "load"   -> 5
      [] OTHER        -> 6

\* Lexicographic order on (document, phase, item).
Before(d1, p1, i1, d2, p2, i2) ==
    \/ d1 < d2
    \/ d1 = d2 /\ PhaseRank(p1) < PhaseRank(p2)
    \/ d1 = d2 /\ p1 = p2 /\ i1 < i2

\* C7: every step moves forward in the order (document, remove < new < append
\* < update, item), and a patch operation on an item is the operation of the
\* phase the engine stands in, on the document it has loaded.
C7_PatchOrder ==
    [][/\ Before(mod_idx, pc, idx, mod_idx', pc', idx')
       /\ op' # "none" => (op' = pc /\ mod_idx' = mod_idx /\ idx' = idx + 1)
       /\ mod_idx' # mod_idx => (pc = "load" /\ mod_idx' = mod_idx + 1 /\ pc' = "remove")]_vars

C7_Witness ==
    /\ mod_idx = 2 /\ op = "update" /\ idx = 2
    /\ Len(section_info) = 3
    /\ trace # <<>>

\* C8: an "append" or "update" item changes no entity whose (type, name, module)
\* differs from the item's or is not fully given by the item; both call from_dict
\* on exactly the entities of the item's key; an item without module changes
\* nothing.
C8_AppendUpdateSelectByKey ==
    [][(op' \in {"append", "update"})
        => /\ Len(section_info') = Len(section_info)
           /\ \A s \in 1..Len(section_info) :
                Len(section_info'[s]) = Len(section_info[s])
           /\ \A p \in Positions(section_info) :
                /\ ~KeyEq(section_info[p[1]][p[2]], item')
                     => section_info'[p[1]][p[2]] = section_info[p[1]][p[2]]
                /\ KeyEq(section_info[p[1]][p[2]], item')
                     <=> \E c \in 1..Len(trace') :
                            trace'[c] = <<"from_dict",
                                          IF op' = "append" THEN "APPEND" ELSE "UPDATE",
                                          p[1], p[2]>>
           /\ item'.module = Absent
                => (section_info' = section_info /\ trace' = <<>>)]_vars

C8_Witness ==
    /\ op = "update" /\ FullKey(item) /\ trace # <<>>
    /\ \E p \in Positions(section_info) :
            KeyEq(section_info[p[1]][p[2]], item)
    /\ \E p \in Positions(section_info) :
            /\ section_info[p[1]][p[2]].type = item.type
            /\ section_info[p[1]][p[2]].name = item.name
            /\ section_info[p[1]][p[2]].module # item.module
            /\ section_info[p[1]][p[2]].desc # item.desc

\* C9: a "remove" item with type and name and without module deletes the entities
\* of that type and name whose module is None, and no other entity.
C9_RemoveWithoutModule ==
    [][(op' = "remove" /\ item'.type # Absent /\ item'.name # Absent
            /\ item'.module = Absent)
        => section_info' = [s \in 1..Len(section_info) |->
                                WithoutNullModule(section_info[s], item')]]_vars

C9_Witness ==
    /\ op = "remove" /\ item.type # Absent /\ item.name # Absent
    /\ item.module = Absent
    /\ trace # <<>>
    /\ \E p \in Positions(section_info) :
            /\ section_info[p[1]][p[2]].type = item.type
            /\ section_info[p[1]][p[2]].name = item.name
            /\ section_info[p[1]][p[2]].module # None

(***************************************************************************)
(* The tokenizer: claims.                                                  *)
(***************************************************************************)
\* The parenthesis depth after the first n characters of str.
Depth(str, n) ==
    Count(SubSeq(str, 1, n), "(") - Count(SubSeq(str, 1, n), ")")

\* Scanned left to right the depth never goes negative and ends at 0.
Balanced(str) ==
    /\ \A n \in 0..Len(str) : Depth(str, n) >= 0
    /\ Depth(str, Len(str)) = 0

Whitespace == {" ", "\t"}

\* str with all whitespace removed.
WithoutWhitespace(str) ==
    LET Black(c) == c \notin Whitespace
    IN  SelectSeq(str, Black)

\* C5: for a text with balanced parentheses the call returns tokens that, joined
\* by commas, are the text with all whitespace removed, each token with as many
\* "(" as ")".
C5_TokensJoinToStrippedText ==
    (parsed # NotCalled /\ Balanced(text))
        => /\ parsed.state = "returned"
           /\ Join(parsed.params, ",") = WithoutWhitespace(text)
           /\ \A i \in 1..Len(parsed.params) :
                Count(parsed.params[i], "(") = Count(parsed.params[i], ")")

\* C6: for a text whose parenthesis depth goes negative at some position or is
\* not 0 at its end the call raises and returns no list.
C6_UnbalancedRaises ==
    (parsed # NotCalled /\ ~Balanced(text)) => parsed = Raised

(***************************************************************************)
(* The section walk: claims.                                               *)
(***************************************************************************)
\* The entities of the sections walked so far.
Walked == result_section_info \o <<result_info_list>>

\* C4: a <desc> that is not the first <desc> of its section after a base-class
\* paragraph is analyzed without base classes: the walk does not raise the
\* "desctype must be 'class'" error on it, and the entity it adds to the
\* section has no base classes.
C4_BaseClassesOnlyForNextEntity ==
    [][(walk_op' = "desc" /\ ~Top(frames).marked)
        => /\ error' # "ValueError: desctype must be 'class'"
           /\ Len(result_info_list') > Len(result_info_list)
                => result_info_list'[Len(result_info_list')].base_classes = <<>>]_vars

\* C10: as long as the walk has not raised, every entity in a section's entity
\* list has a name and a module that are not None.
C10_NameAndModuleNotNone ==
    walk_pc # "raised"
        => \A p \in Positions(Walked) :
                /\ Walked[p[1]][p[2]].name # NoneStr
                /\ Walked[p[1]][p[2]].module # None

(***************************************************************************)
(* The analyzers: claims.                                                  *)
(***************************************************************************)
\* The places of the children of elm with a tag.
Places(tag) == {i \in 1..Len(elm.children) : elm.children[i].tag = tag}

\* C11: an analyzer returns an entity only when the <desc> holds a signature and
\* a content after it; a <desc> with a signature and no content yields no entity.
C11_EntityHasSignatureAndContent ==
    (analyzed # NotAnalyzed /\ analyzed.error = "none")
        => \E i \in Places("desc_signature") :
                \E j \in Places("desc_content") : i < j

\* C12: when a content comes before every signature of the <desc>, or the <desc>
\* holds no signature, analyze raises and returns no entity.
C12_ContentFirstOrNoSignatureRaises ==
    (/\ analyzed # NotAnalyzed
     /\ \/ Places("desc_signature") = {}
        \/ \E j \in Places("desc_content") :
                \A i \in Places("desc_signature") : j < i)
        => (analyzed.error # "none" /\ analyzed.info = NoInfo)

C12_Witness ==
    /\ analyzed # NotAnalyzed
    /\ role = "function"
    /\ Places("desc_content") = {1}
    /\ Places("desc_signature") = {2}
    /\ elm.children[2].desc_name # AbsentStr
    /\ analyzed.error = "RuntimeError"

(***************************************************************************)
(* The section walk: further claims.                                       *)
(***************************************************************************)
\* s is t, or t with one element appended.
GrowsByAtMostOne(s, t) ==
    \/ s = t
    \/ Len(s) = Len(t) + 1 /\ SubSeq(s, 1, Len(t)) = t

\* C13: a SectionInfo is added to the result exactly when the walk of a section
\* that is a child of the root ends, and it holds the entity list of that walk;
\* such a walk starts, with an empty entity list, exactly at a <section> child of
\* the root; while it runs, at any depth of nested sections, the entity list only
\* grows, at its end, by the entity of the <desc> just visited; entering and
\* leaving a nested section changes neither the entity list nor the result.
C13_SectionsFlatten ==
    [][/\ IF Len(frames) = 1 /\ frames' = <<>>
          THEN result_section_info' = Append(result_section_info, result_info_list)
          ELSE result_section_info' = result_section_info
       /\ (frames = <<>> /\ frames' # <<>>)
            <=> (walk_pc = "root" /\ walk_op' = "section")
       /\ (frames = <<>> /\ frames' # <<>>)
            => (Len(frames') = 1 /\ result_info_list' = <<>>)
       /\ (frames # <<>> /\ frames' # <<>>)
            => /\ GrowsByAtMostOne(result_info_list', result_info_list)
               /\ result_info_list' # result_info_list => walk_op' = "desc"
               /\ Len(frames') # Len(frames) => result_info_list' = result_info_list
       /\ walk_pc' = "done" => frames = <<>>]_vars

C13_Witness ==
    /\ walk_pc = "section"
    /\ walk_op = "desc"
    /\ Len(frames) = 2
    /\ Len(result_info_list) = 2
    /\ result_info_list[1].type = "class"
    /\ result_info_list[2].type = "function"

(***************************************************************************)
(* The patch engine: further claims.                                       *)
(***************************************************************************)
\* C14: when the model held no entity of a key as a document was loaded and the
\* document's "new" list held two items of that key, the model holds exactly one
\* entity of the key after the "new" step.
C14_NewTwiceInOneListLeavesOne ==
    (pc = "append" /\ idx = 0 /\ mon.kind = "new-twice" /\ mon.absent /\ mon.cur = 2)
        => CountKey(section_info, probe) = 1

(***************************************************************************)
(* The analyzers: further claims.                                          *)
(***************************************************************************)
\* C15: for a signature with class C and fullname 'C.attr', with or without a
\* module prefix, VariableAnalyzer returns an entity whose name is attr.
C15_AttributeNameStripped ==
    (analyzed # NotAnalyzed /\ role = "attribute" /\ Places("desc_signature") = {1})
        => \A prefix \in AttrPrefixes : \A attr \in AttrNames :
                elm.children[1].fullname
                        = QualifiedName(prefix, elm.children[1].class, attr)
                    => (analyzed.error = "none" /\ analyzed.info.name = attr)

\* elm without the signatures that follow its first signature.
WithFirstSignatureOnly ==
    Desc(elm.desctype, FirstSignatureOnly(elm.children, 1, FALSE))

\* C16, as stated: for a <desc> with two or more signatures every analyzer
\* behaves as if the signatures after the first were not there: the same entity,
\* and no further error.
C16_LaterSignaturesIgnored ==
    (analyzed # NotAnalyzed /\ Cardinality(Places("desc_signature")) >= 2)
        => analyzed = analyze(WithFirstSignatureOnly, role)

\* C16, amended: FunctionAnalyzer and ClassAnalyzer behave as if the signatures
\* after the first were not there; VariableAnalyzer raises and returns no entity,
\* with a RuntimeError when the <desc> without the later signatures is analyzed
\* without error.
C16_LaterSignaturesIgnoredOrFatal ==
    (analyzed # NotAnalyzed /\ Cardinality(Places("desc_signature")) >= 2)
        => IF role \in {"function", "method", "class"}
           THEN analyzed = analyze(WithFirstSignatureOnly, role)
           ELSE /\ analyzed.error # "none"
                /\ analyzed.info = NoInfo
                /\ analyze(WithFirstSignatureOnly, role).error = "none"
                        => analyzed.error = "RuntimeError"

C16_Witness ==
    /\ analyzed # NotAnalyzed
    /\ role = "class"
    /\ Places("desc_signature") = {1, 2}
    /\ elm.children[1].fullname = <<"f">>
    /\ elm.children[1].module = "m"
    /\ elm.children[2].fullname = AbsentStr
    /\ elm.children[2].module = Absent
    /\ analyzed.error = "none"
    /\ analyzed.info.name = <<"f">>
    /\ analyzed.info.module = "m"

(***************************************************************************)
(* The tokenizer: further claims.                                          *)
(***************************************************************************)
\* A function signature with the text of <desc_name> and the <desc_parameter>
\* texts of its <desc_parameterlist>.
FunctionSignatureOf(dtext, bodies) ==
    FunctionSignature(Signature(AbsentStr, "m", AbsentStr, dtext, bodies),
                      BlankInfo("function"))

\* C17: a call that does not raise returns at least one token, and for the empty
\* text the single token ''; so do the signature 'a()' and a <desc_parameterlist>
\* without <desc_parameter> children.
C17_NeverReturnsEmptyList ==
    /\ parsed.state = "returned" => Len(parsed.params) >= 1
    /\ (parsed.state = "returned" /\ text = <<>>) => parsed.params = << <<>> >>
    /\ get_parameters(<<>>) = Returned(<< <<>> >>)
    /\ FunctionSignatureOf(<<"a", "(", ")">>, AbsentList).info.parameters = << <<>> >>
    /\ FunctionSignatureOf(<<"a">>, <<>>).info.parameters = << <<>> >>

C17_Witness ==
    /\ parsed.state = "returned"
    /\ text = <<>>
    /\ parsed.params = << <<>> >>

====
